---- MODULE Spec2Model ----
(***************************************************************************)
(* Model of the Intuis Connect integration (intuis_connect): the OAuth2    *)
(* token lifecycle of IntuisHttpClient, the home discovery of IntuisApi,   *)
(* the update coordinator and the entity platforms that read its data.     *)
(***************************************************************************)
EXTENDS Integers, Sequences, FiniteSets, TLC

VARIABLES
    payload,      \* the /api/homesdata payload handed to _extract_home_from_homesdata
    queue,        \* deque of the breadth-first pass
    seen,         \* ids of the dicts and lists already processed
    best,         \* best candidate so far (NoneV: none)
    best_score,   \* its score (-1: none)
    epc,          \* position in _extract_home_from_homesdata
    eresult,      \* the dict returned (NoneV: nothing returned)
    auth,         \* IntuisHttpClient._auth: access_token, refresh_token, expires_at
    now,          \* time.time()
    cpc,          \* position of the client call in progress
    op,           \* the client call in progress: its name and arguments
    cres,         \* how the last client call ended, and its value
    attempt,      \* login(): the attempt in progress
    treqs,        \* the /oauth2/token requests sent since the caller started
    dreqs,        \* the other requests sent since the caller started
    home_cache,   \* IntuisApi._home_cache (<<>>: None)
    upc,          \* position in IntuisCoordinator._async_update_data
    reason,       \* who asked for the update in progress
    calls,        \* the API calls of the update in progress, as they ended
    data,         \* coordinator.data (<<>>: None)
    spc,          \* position in async_setup_entry of the integration
    forwarded,    \* the platforms the entry was forwarded to
    plat,         \* the state of each platform's async_setup_entry
    sensors,      \* the sensor entities added
    climates,     \* the climate entities added
    polls         \* the scheduled refreshes so far

avars == <<auth, now, cpc, op, cres, attempt, treqs, dreqs>>

hvars == <<home_cache, upc, reason, calls, data, spc, forwarded, plat, sensors,
           climates, polls>>

vars == <<payload, queue, seen, best, best_score, epc, eresult,
          auth, now, cpc, op, cres, attempt, treqs, dreqs,
          home_cache, upc, reason, calls, data, spc, forwarded, plat, sensors,
          climates, polls>>

evars == <<payload, queue, seen, best, best_score, epc, eresult>>

----------------------------------------------------------------------------
(* JSON values.  A scalar is a string; NoneV is Python's None (a JSON null  *)
(* or the result of .get on a missing key); "#0" is the integer 0.  A dict  *)
(* or a list is a node of a heap, named by a reference (its id()).          *)

NoneV == "<None>"

EmptyFcn == [k \in {} |-> NoneV]

\* bool(v) of a scalar
Truthy(v) == v \notin {NoneV, "", "#0"}

\* str(v).strip()
StrStrip(v) ==
    CASE v = NoneV -> "None"
      [] v = " " -> ""
      [] v = " h1 " -> "h1"
      [] v = "#0" -> "0"
      [] OTHER -> v

\* a or b or c
Or3(a, b, c) == IF Truthy(a) THEN a ELSE IF Truthy(b) THEN b ELSE c

Dict(sc, kids) == [kind |-> "dict", sc |-> sc, kids |-> kids]
List(sc, kids) == [kind |-> "list", sc |-> sc, kids |-> kids]

\* obj.get(key) when the value is a scalar (NoneV when missing)
ScGet(obj, key) == IF key \in DOMAIN obj.sc THEN obj.sc[key] ELSE NoneV

\* the value under key is a dict or a list
HasKid(obj, key) == \E i \in 1..Len(obj.kids) : obj.kids[i][1] = key

KidRef(obj, key) ==
    obj.kids[CHOOSE i \in 1..Len(obj.kids) : obj.kids[i][1] = key][2]

\* key in obj
HasKey(obj, key) == key \in DOMAIN obj.sc \/ HasKid(obj, key)

\* not value, for a dict or a list
IsEmpty(node) == DOMAIN node.sc = {} /\ node.kids = <<>>

----------------------------------------------------------------------------
(* _extract_home_from_homesdata: the scoring                                *)

HintKeys ==
    <<"rooms", "modules", "therm_schedules", "schedules", "modules_bridged",
      "capabilities", "timezone", "city", "name">>

hints ==
    ("rooms" :> 4) @@ ("modules" :> 3) @@ ("therm_schedules" :> 3) @@
    ("schedules" :> 3) @@ ("modules_bridged" :> 2) @@ ("capabilities" :> 2) @@
    ("timezone" :> 1) @@ ("city" :> 1) @@ ("name" :> 1)

HintWeight(h, obj, key) ==
    IF ~HasKey(obj, key) THEN 0
    ELSE IF HasKid(obj, key)
         THEN (IF IsEmpty(h[KidRef(obj, key)]) THEN 0 ELSE hints[key])
         ELSE (IF obj.sc[key] \notin {NoneV, ""} THEN hints[key] ELSE 0)

RECURSIVE HintSum(_, _, _)
HintSum(h, obj, i) ==
    IF i > Len(HintKeys) THEN 0
    ELSE HintWeight(h, obj, HintKeys[i]) + HintSum(h, obj, i + 1)

RoomsBonus(h, obj) ==
    IF HasKid(obj, "rooms") /\ h[KidRef(obj, "rooms")].kind = "list" THEN 5 ELSE 0

_score_candidate(h, obj) == HintSum(h, obj, 1) + RoomsBonus(h, obj)

\* candidate = id or _id or home_id; kept when not None and not blank
CandidateId(obj) == Or3(ScGet(obj, "id"), ScGet(obj, "_id"), ScGet(obj, "home_id"))

IsCandidate(obj) ==
    /\ obj.kind = "dict"
    /\ CandidateId(obj) # NoneV
    /\ StrStrip(CandidateId(obj)) # ""

BetterTieLast(h, cur, b, bscore) ==
    _score_candidate(h, h[cur]) >= bscore

\* the candidate replaces the best one
Better(h, cur, b, bscore) ==
    LET score == _score_candidate(h, h[cur]) IN
    \/ score > bscore
    \/ /\ b # NoneV
       /\ score = bscore
       /\ HasKey(h[cur], "rooms") /\ ~HasKey(h[b], "rooms")

WrapperKeys == <<"home", "body", "data", "result", "homes">>

\* the wrapper keys get no priority
NoWrapperPriority(obj, q, i) == q

\* queue.appendleft(value) for each wrapper key, in order
RECURSIVE AppendLeftWrappers(_, _, _)
AppendLeftWrappers(obj, q, i) ==
    IF i > Len(WrapperKeys) THEN q
    ELSE AppendLeftWrappers(
             obj,
             IF HasKid(obj, WrapperKeys[i])
             THEN <<KidRef(obj, WrapperKeys[i])>> \o q ELSE q,
             i + 1)

KidRefs(obj) == [i \in 1..Len(obj.kids) |-> obj.kids[i][2]]

\* one iteration of the while loop, on the state st = [queue, seen, best, best_score]
BfsStep(h, st) ==
    LET current == Head(st.queue)
        rest == Tail(st.queue)
        obj == h[current]
    IN  IF current \in st.seen THEN [st EXCEPT !.queue = rest]
        ELSE IF obj.kind = "dict"
        THEN LET take == IsCandidate(obj) /\ Better(h, current, st.best, st.best_score)
             IN  [queue |-> AppendLeftWrappers(obj, rest, 1) \o KidRefs(obj),
                  seen |-> st.seen \cup {current},
                  best |-> IF take THEN current ELSE st.best,
                  best_score |-> IF take THEN _score_candidate(h, obj)
                                 ELSE st.best_score]
        ELSE [st EXCEPT !.queue = rest \o KidRefs(obj),
                        !.seen = st.seen \cup {current}]

BfsInit(root) == [queue |-> <<root>>, seen |-> {}, best |-> NoneV, best_score |-> -1]

RECURSIVE BfsRun(_, _)
BfsRun(h, st) == IF st.queue = <<>> THEN st ELSE BfsRun(h, BfsStep(h, st))

----------------------------------------------------------------------------
(* _extract_home_from_homesdata: the recursive fallback                     *)

MaxDepth == 32

_looks_like_home(obj) ==
    /\ \E key \in {"rooms", "modules", "capabilities", "timezone", "city"} :
           HasKey(obj, key)
    /\ CandidateId(obj) # NoneV
    /\ StrStrip(CandidateId(obj)) # ""

RECURSIVE _search_home(_, _, _)
RECURSIVE SearchSeq(_, _, _)

\* the first hit among the references of refs, searched in order
SearchSeq(h, refs, depth) ==
    IF refs = <<>> THEN NoneV
    ELSE LET found == _search_home(h, Head(refs), depth)
         IN  IF found # NoneV THEN found ELSE SearchSeq(h, Tail(refs), depth)

_search_home(h, ref, depth) ==
    IF depth > MaxDepth THEN NoneV
    ELSE LET obj == h[ref] IN
         IF obj.kind = "dict"
         THEN IF _looks_like_home(obj) THEN ref
              ELSE LET pri == SelectSeq(<<"home", "data", "result", "body">>,
                                        LAMBDA k : HasKid(obj, k))
                       priRefs == [i \in 1..Len(pri) |-> KidRef(obj, pri[i])]
                       homes == IF HasKid(obj, "homes")
                                   /\ h[KidRef(obj, "homes")].kind = "list"
                                THEN KidRefs(h[KidRef(obj, "homes")]) ELSE <<>>
                   IN  SearchSeq(h, priRefs \o homes \o KidRefs(obj), depth + 1)
         ELSE SearchSeq(h, KidRefs(obj), depth + 1)

\* the whole function: the dict returned, or NoneV when IntuisApiError is raised
ExtractHome(p) ==
    LET st == BfsRun(p.heap, BfsInit(p.root))
    IN  IF st.best # NoneV THEN st.best ELSE _search_home(p.heap, p.root, 0)

----------------------------------------------------------------------------
(* The payloads explored.  Every payload holds one home dict H (an id and a *)
(* rooms list) at the root, under home, under body.home or in homes[], and  *)
(* possibly another dict X: the wrapper itself, a sibling of the home under *)
(* the key user, or a dict inside the home under the key owner.             *)

Places == {"root", "home", "body.home", "homes[]"}

HomeVariants == [rooms : BOOLEAN, name : BOOLEAN, id : {"h1"}]

\* homes whose id is blank: no dict of the payload is then a candidate
BlankHomeVariants == [rooms : BOOLEAN, name : {TRUE}, id : {" "}]

XVariants ==
    [id : {" ", "x1"},
     sc : {{}, {"name"}, {"name", "timezone", "city"}},
     lists : BOOLEAN,
     rooms : {"no", "empty", "some"}]

HSc(hv) == ("id" :> hv.id) @@ (IF hv.name THEN "name" :> "Maison" ELSE EmptyFcn)

HomeNodes(hv, inside) ==
    ("H" :> Dict(HSc(hv),
                 <<<<"rooms", "RL">>>> \o
                 (IF inside THEN <<<<"owner", "X">>>> ELSE <<>>)))
    @@ ("RL" :> List(EmptyFcn, IF hv.rooms THEN <<<<"", "R">>>> ELSE <<>>))
    @@ (IF hv.rooms
        THEN "R" :> Dict(("id" :> "r1") @@ ("name" :> "Salon"), <<>>)
        ELSE EmptyFcn)

XSc(x) == ("id" :> x.id) @@ [k \in x.sc |-> "v"]

XKids(x) ==
    (IF x.lists
     THEN <<<<"modules_bridged", "XMB">>, <<"capabilities", "XCAP">>>>
     ELSE <<>>)
    \o (IF x.rooms # "no" THEN <<<<"rooms", "XRL">>>> ELSE <<>>)

XAux(x) ==
    (IF x.lists
     THEN ("XMB" :> List(("#" :> "m1"), <<>>)) @@ ("XCAP" :> List(("#" :> "c1"), <<>>))
     ELSE EmptyFcn)
    @@ (IF x.rooms = "empty" THEN "XRL" :> List(EmptyFcn, <<>>)
        ELSE IF x.rooms = "some" THEN "XRL" :> List(("#" :> "r9"), <<>>)
        ELSE EmptyFcn)

\* the kids that lead from the wrapper W to the home
PlaceKids(place) ==
    CASE place = "home" -> <<<<"home", "H">>>>
      [] place = "body.home" -> <<<<"body", "B">>>>
      [] place = "homes[]" -> <<<<"homes", "HL">>>>
      [] OTHER -> <<>>

PlaceNodes(place) ==
    CASE place = "body.home" -> "B" :> Dict(EmptyFcn, <<<<"home", "H">>>>)
      [] place = "homes[]" -> "HL" :> List(EmptyFcn, <<<<"", "H">>>>)
      [] OTHER -> EmptyFcn

NoX == [id |-> " ", sc |-> {}, lists |-> FALSE, rooms |-> "no"]

MkPayload(place, hv, xpos, x) ==
    [root |-> IF place = "root" THEN "H" ELSE "W",
     heap |->
        HomeNodes(hv, xpos = "inside")
        @@ PlaceNodes(place)
        @@ (IF xpos = "none" THEN EmptyFcn ELSE XAux(x))
        @@ (IF xpos \in {"sibling", "inside"} THEN "X" :> Dict(XSc(x), XKids(x))
            ELSE EmptyFcn)
        @@ (IF place = "root" THEN EmptyFcn
            ELSE "W" :> Dict(IF xpos = "wrapper" THEN XSc(x)
                             ELSE ("status" :> "ok"),
                             PlaceKids(place)
                             \o (IF xpos = "wrapper" THEN XKids(x) ELSE <<>>)
                             \o (IF xpos = "sibling" THEN <<<<"user", "X">>>>
                                 ELSE <<>>)))]

Payloads ==
    {MkPayload(place, hv, "none", NoX) : place \in Places, hv \in HomeVariants}
    \cup {MkPayload(place, hv, "inside", x) :
              place \in Places, hv \in HomeVariants, x \in XVariants}
    \cup {MkPayload(place, hv, xpos, x) :
              place \in Places \ {"root"}, hv \in HomeVariants,
              xpos \in {"wrapper", "sibling"}, x \in XVariants}
    \cup {MkPayload(place, hv, "none", NoX) :
              place \in Places, hv \in BlankHomeVariants}

----------------------------------------------------------------------------
(* _extract_home_from_homesdata, step by step                               *)

EInit(P) ==
    /\ payload \in P
    /\ queue = <<payload.root>>
    /\ seen = {}
    /\ best = NoneV
    /\ best_score = -1
    /\ epc = "bfs"
    /\ eresult = NoneV

\* one iteration of `while queue`
BfsIter ==
    /\ epc = "bfs"
    /\ queue # <<>>
    /\ LET st == BfsStep(payload.heap, [queue |-> queue, seen |-> seen,
                                        best |-> best, best_score |-> best_score])
       IN  /\ queue' = st.queue
           /\ seen' = st.seen
           /\ best' = st.best
           /\ best_score' = st.best_score
    /\ UNCHANGED <<payload, epc, eresult>>
    /\ UNCHANGED <<avars, hvars>>

\* `if best is not None: return best`
ReturnBest ==
    /\ epc = "bfs"
    /\ queue = <<>>
    /\ best # NoneV
    /\ epc' = "returned"
    /\ eresult' = best
    /\ UNCHANGED <<payload, queue, seen, best, best_score>>
    /\ UNCHANGED <<avars, hvars>>

\* the fallback: `home = _search_home(payload)`, returned or IntuisApiError
Fallback ==
    /\ epc = "bfs"
    /\ queue = <<>>
    /\ best = NoneV
    /\ LET home == _search_home(payload.heap, payload.root, 0)
       IN  /\ epc' = IF home # NoneV THEN "returned" ELSE "raised"
           /\ eresult' = home
    /\ UNCHANGED <<payload, queue, seen, best, best_score>>
    /\ UNCHANGED <<avars, hvars>>

NextHome == BfsIter \/ ReturnBest \/ Fallback

----------------------------------------------------------------------------
(* IntuisHttpClient: the token lifecycle.  An optional number is a sequence *)
(* of length 0 (None) or 1.                                                 *)

EarlyRefresh == 60
DefaultExpiresIn == 3600
MaxLoginAttempts == 3

MaxTime == 120
TickSteps == {30}
ExpiresIn == {30, 90}

Absent == "<absent>"

\* what /oauth2/token may answer: an error status or invalid JSON (IntuisApiError),
\* a JSON body that is not an object, or an object
TokenResponses ==
    {[kind |-> "api_error"], [kind |-> "nondict"]}
    \cup [kind : {"dict"},
          access_token : {Absent, "tA", "tB"},
          refresh_token : {Absent, "rA", "rB"},
          expires_in : {<<>>} \cup {<<n>> : n \in ExpiresIn}]

\* data.get(key)
DataGet(v) == IF v = Absent THEN NoneV ELSE v

_token_expiring_late(a, t) ==
    IF a.expires_at = <<>> \/ a.expires_at = <<0>> THEN TRUE
    ELSE t > a.expires_at[1] - EarlyRefresh

_token_expiring(a, t) ==
    IF a.expires_at = <<>> \/ a.expires_at = <<0>> THEN TRUE
    ELSE t >= a.expires_at[1] - EarlyRefresh

\* the refresh token is overwritten by data.get("refresh_token")
_store_tokens_overwrite(a, body, t) ==
    [access_token |-> DataGet(body.access_token),
     refresh_token |-> DataGet(body.refresh_token),
     expires_at |-> IF body.expires_in # <<>> THEN <<t + body.expires_in[1]>>
                    ELSE <<t + DefaultExpiresIn>>]

_store_tokens(a, body, t) ==
    [access_token |-> DataGet(body.access_token),
     refresh_token |-> IF body.refresh_token = Absent THEN a.refresh_token
                       ELSE body.refresh_token,
     expires_at |-> IF body.expires_in # <<>> THEN <<t + body.expires_in[1]>>
                    ELSE <<t + DefaultExpiresIn>>]

\* _auth_headers(): the bearer token sent, NoneV when the header is left out
_auth_headers(a) == IF ~Truthy(a.access_token) THEN NoneV ELSE a.access_token

NoOp == [name |-> "none", hid |-> NoneV, rtype |-> NoneV]
NoRes == [status |-> "none"]

\* a request to /oauth2/token; once answered, its outcome and the access_token of
\* the answer
TokenReq(grant) == [grant |-> grant, outcome |-> "pending", token |-> NoneV]

\* the last request of reqs answered by resp
Answered(reqs, resp) ==
    [reqs EXCEPT ![Len(reqs)].outcome = IF resp.kind = "dict" THEN "ok" ELSE resp.kind,
                 ![Len(reqs)].token = IF resp.kind = "dict"
                                      THEN DataGet(resp.access_token) ELSE NoneV]

AInit ==
    /\ auth = [access_token |-> NoneV, refresh_token |-> NoneV, expires_at |-> <<>>]
    /\ now = 0
    /\ cpc = "idle"
    /\ op = NoOp
    /\ cres = NoRes
    /\ attempt = 0
    /\ treqs = <<>>
    /\ dreqs = <<>>

\* time passes
Tick ==
    /\ \E d \in TickSteps : now + d <= MaxTime /\ now' = now + d
    /\ UNCHANGED <<auth, cpc, op, cres, attempt, treqs, dreqs>>
    /\ UNCHANGED <<evars, hvars>>

\* ensure_token, after a failed refresh: which exceptions fall back to login
RefreshFallsBackAny(kind) == kind \in {"api_error", "nondict"}

RefreshFallsBack(kind) == kind = "api_error"

\* login(): another attempt follows a failed one
LoginRetriesOnceMore(att) == att <= MaxLoginAttempts

LoginRetries(att) == att < MaxLoginAttempts

\* ensure_token(): the test, then the refresh request or the first login request
EnsureToken ==
    /\ cpc = "ensure"
    /\ IF Truthy(auth.access_token) /\ ~_token_expiring(auth, now)
       THEN /\ cpc' = "send"
            /\ UNCHANGED <<attempt, treqs>>
       ELSE IF Truthy(auth.refresh_token)
       THEN /\ cpc' = "refresh_wait"
            /\ treqs' = Append(treqs, TokenReq("refresh_token"))
            /\ UNCHANGED attempt
       ELSE /\ cpc' = "login_wait"
            /\ attempt' = 1
            /\ treqs' = Append(treqs, TokenReq("password"))
    /\ UNCHANGED <<auth, now, op, cres, dreqs>>
    /\ UNCHANGED <<evars, hvars>>

\* _refresh(): the answer to the refresh request
RefreshResponse(TR) ==
    /\ cpc = "refresh_wait"
    /\ \E resp \in TR :
        IF resp.kind = "dict"
        THEN /\ auth' = _store_tokens(auth, resp, now)
             /\ treqs' = Answered(treqs, resp)
             /\ cpc' = "send"
             /\ UNCHANGED <<cres, attempt>>
        ELSE IF RefreshFallsBack(resp.kind)
        THEN /\ treqs' = Append(Answered(treqs, resp), TokenReq("password"))
             /\ attempt' = 1
             /\ cpc' = "login_wait"
             /\ UNCHANGED <<auth, cres>>
        ELSE /\ treqs' = Answered(treqs, resp)
             /\ cpc' = "done"
             /\ cres' = [status |-> "other_error"]
             /\ UNCHANGED <<auth, attempt>>
    /\ UNCHANGED <<now, op, dreqs>>
    /\ UNCHANGED <<evars, hvars>>

\* login(): the answer to the password request of the attempt in progress
LoginResponse(TR) ==
    /\ cpc = "login_wait"
    /\ \E resp \in TR :
        IF resp.kind = "dict"
        THEN /\ auth' = _store_tokens(auth, resp, now)
             /\ treqs' = Answered(treqs, resp)
             /\ IF op.name = "login"
                THEN cpc' = "done" /\ cres' = [status |-> "ok"]
                ELSE cpc' = "send" /\ UNCHANGED cres
             /\ UNCHANGED attempt
        ELSE IF resp.kind = "api_error"
        THEN IF LoginRetries(attempt)
             THEN /\ treqs' = Append(Answered(treqs, resp), TokenReq("password"))
                  /\ attempt' = attempt + 1
                  /\ UNCHANGED <<auth, cpc, cres>>
             ELSE /\ treqs' = Answered(treqs, resp)
                  /\ cpc' = "done"
                  /\ cres' = [status |-> "api_error"]
                  /\ UNCHANGED <<auth, attempt>>
        ELSE /\ treqs' = Answered(treqs, resp)
             /\ cpc' = "done"
             /\ cres' = [status |-> "other_error"]
             /\ UNCHANGED <<auth, attempt>>
    /\ UNCHANGED <<now, op, dreqs>>
    /\ UNCHANGED <<evars, hvars>>

\* IntuisApi.async_authenticate() is called
CallAuthenticate ==
    /\ cpc = "idle"
    /\ op' = [NoOp EXCEPT !.name = "async_authenticate"]
    /\ cpc' = "ensure"
    /\ cres' = NoRes
    /\ treqs' = <<>>
    /\ attempt' = 0
    /\ UNCHANGED <<auth, now, dreqs>>
    /\ UNCHANGED <<evars, hvars>>

\* IntuisApi.login() is called: the first password request
CallLogin ==
    /\ cpc = "idle"
    /\ op' = [NoOp EXCEPT !.name = "login"]
    /\ cpc' = "login_wait"
    /\ cres' = NoRes
    /\ treqs' = <<TokenReq("password")>>
    /\ attempt' = 1
    /\ UNCHANGED <<auth, now, dreqs>>
    /\ UNCHANGED <<evars, hvars>>

\* async_authenticate() returns once ensure_token has returned
AuthenticateReturn ==
    /\ cpc = "send"
    /\ op.name = "async_authenticate"
    /\ cpc' = "done"
    /\ cres' = [status |-> "ok"]
    /\ UNCHANGED <<auth, now, op, attempt, treqs, dreqs>>
    /\ UNCHANGED <<evars, hvars>>

\* the caller takes the result
CallEnd ==
    /\ cpc = "done"
    /\ cpc' = "idle"
    /\ UNCHANGED <<auth, now, op, cres, attempt, treqs, dreqs>>
    /\ UNCHANGED <<evars, hvars>>

NextAuth ==
    \/ Tick
    \/ CallAuthenticate
    \/ CallLogin
    \/ EnsureToken
    \/ RefreshResponse(TokenResponses)
    \/ LoginResponse(TokenResponses)
    \/ AuthenticateReturn
    \/ CallEnd

EFixed == EInit({MkPayload("root", [rooms |-> TRUE, name |-> TRUE, id |-> "h1"], "none", NoX)})

HInit ==
    /\ home_cache = <<>>
    /\ upc = "idle"
    /\ reason = "none"
    /\ calls = <<>>
    /\ data = <<>>
    /\ spc = "init"
    /\ forwarded = {}
    /\ plat = [p \in {} |-> "pending"]
    /\ sensors = {}
    /\ climates = {}
    /\ polls = 0

InitHome == EInit(Payloads) /\ AInit /\ HInit

SpecHome == InitHome /\ [][NextHome]_vars

InitAuth == EFixed /\ AInit /\ HInit

SpecAuth == InitAuth /\ [][NextAuth]_vars

----------------------------------------------------------------------------
(* The data endpoints, IntuisApi.get_home and get_home_id                   *)

\* the bodies /api/homesdata answers with: a home at the root, another home under
\* body.home, a payload whose only id is blank
CoordPayloads ==
    <<MkPayload("root", [rooms |-> TRUE, name |-> TRUE, id |-> "h1"], "none", NoX),
      MkPayload("body.home", [rooms |-> TRUE, name |-> FALSE, id |-> "h2"], "none", NoX),
      MkPayload("home", [rooms |-> FALSE, name |-> TRUE, id |-> " "], "none", NoX)>>

\* the bodies /syncapi/v1/homestatus answers with: the measured temperature of r1
StatusBodies ==
    {[rooms |-> <<[id |-> "r1", therm_measured_temperature |-> t,
                   therm_setpoint_temperature |-> 20]>>] : t \in {19, 21}}

\* the bodies /api/gethomemeasure answers with: {"body": {"measures": [...]}}
MeasureBodies ==
    {[measures |-> <<>>]} \cup {[measures |-> <<[value |-> v]>>] : v \in {1, 2}}

\* an error status or invalid JSON (IntuisApiError), or an exception of the session
Failures == {[kind |-> "api_error"], [kind |-> "other_error"]}

DataResponses(name) ==
    Failures \cup
    CASE name = "get_homesdata" ->
             {[kind |-> "scalar"]} \cup
             {[kind |-> "json", body |-> i] : i \in 1..Len(CoordPayloads)}
      [] name = "post_homestatus" -> {[kind |-> "json", body |-> b] : b \in StatusBodies}
      [] OTHER -> {[kind |-> "json", body |-> b] : b \in MeasureBodies}

\* what /oauth2/token answers while the coordinator runs
CoordTokenResponses ==
    {[kind |-> "api_error"]}
    \cup [kind : {"dict"},
          access_token : {"tA"},
          refresh_token : {"rA"},
          expires_in : {<<>>, <<30>>}]

\* get_home(), from the payload on: the normalized home cached, or IntuisApiError
GetHome(i) ==
    LET p == CoordPayloads[i]
        home == ExtractHome(p)
    IN  IF home = NoneV THEN [status |-> "api_error"]
        ELSE LET obj == p.heap[home]
                 cand == CandidateId(obj)
                 hid == StrStrip(IF Truthy(cand) THEN cand ELSE "")
             IN  IF hid = "" THEN [status |-> "api_error"]
                 ELSE [status |-> "ok", home |-> [id |-> hid, src |-> i, ref |-> home]]

\* home.get("rooms", []) of a cached home: the ids of its rooms
RoomsOf(home) ==
    LET h == CoordPayloads[home.src].heap
        obj == h[home.ref]
    IN  IF HasKid(obj, "rooms")
        THEN [i \in 1..Len(h[KidRef(obj, "rooms")].kids) |->
                 ScGet(h[h[KidRef(obj, "rooms")].kids[i][2]], "id")]
        ELSE <<>>

\* a client call starts: ensure_token first
StartCall(name, hid, rtype) ==
    /\ op' = [name |-> name, hid |-> hid, rtype |-> rtype]
    /\ cpc' = "ensure"
    /\ cres' = NoRes
    /\ attempt' = 0
    /\ treqs' = <<>>

\* gethomemeasure(home_id, scale="day", offset=0, limit=30, rtype=rtype) starts
StartMeasure(hid, rtype) ==
    /\ op' = [name |-> "post_gethomemeasure", hid |-> hid, rtype |-> rtype,
              scale |-> "day", offset |-> 0, limit |-> 30]
    /\ cpc' = "ensure"
    /\ cres' = NoRes
    /\ attempt' = 0
    /\ treqs' = <<>>

\* the request of a client call: its endpoint, its form and its bearer token; the
\* form of post_gethomemeasure holds type only when rtype is given
RequestOf(o, bearer) ==
    IF o.name = "post_gethomemeasure"
    THEN [endpoint |-> o.name, hid |-> o.hid, rtype |-> o.rtype, bearer |-> bearer,
          scale |-> o.scale, offset |-> o.offset, limit |-> o.limit]
    ELSE [endpoint |-> o.name, hid |-> o.hid, rtype |-> o.rtype, bearer |-> bearer]

\* get_homesdata, post_homestatus, post_gethomemeasure: the request is sent with
\* the headers of _auth_headers() once ensure_token has returned
SendRequest ==
    /\ cpc = "send"
    /\ op.name \in {"get_homesdata", "post_homestatus", "post_gethomemeasure"}
    /\ dreqs' = Append(dreqs, RequestOf(op, _auth_headers(auth)))
    /\ cpc' = "request_wait"
    /\ UNCHANGED <<auth, now, op, cres, attempt, treqs>>
    /\ UNCHANGED <<evars, hvars>>

\* _request_json: the answer; get_homesdata refuses a body that is no dict or list
DataResponse ==
    /\ cpc = "request_wait"
    /\ \E resp \in DataResponses(op.name) :
          cres' = IF resp.kind = "json" THEN [status |-> "ok", body |-> resp.body]
                  ELSE IF resp.kind = "scalar" THEN [status |-> "api_error"]
                  ELSE [status |-> resp.kind]
    /\ cpc' = "done"
    /\ UNCHANGED <<auth, now, op, attempt, treqs, dreqs>>
    /\ UNCHANGED <<evars, hvars>>

----------------------------------------------------------------------------
(* IntuisCoordinator._async_update_data                                     *)

MaxPolls == 2

PLATFORMS == {"sensor", "climate"}

\* an API call of the update as it ended: hid is the home id passed (for
\* get_home_id: returned), body the payload returned
Call(name, hid, rtype, res) ==
    [name |-> name, hid |-> hid, rtype |-> rtype, status |-> res.status,
     body |-> IF res.status = "ok" /\ "body" \in DOMAIN res THEN <<res.body>> ELSE <<>>]

Ok == [status |-> "ok"]

\* the update goes on after async_authenticate
AuthIgnored(status) == TRUE

AuthOk(status) == status = "ok"

\* a failed gethomemeasure is tried again without a type
MeasureRetriesAlways(status, rtype) == status = "api_error"

MeasureRetries(status, rtype) == status = "api_error" /\ rtype = "energy"

\* measures stays the {} it was initialized with
UpdateResultEmpty(cs) ==
    ("home_id" :> cs[2].hid) @@ ("status" :> cs[3].body[1])
    @@ ("measures" :> [measures |-> <<>>])

\* the dict _async_update_data returns
UpdateResult(cs) ==
    ("home_id" :> cs[2].hid) @@ ("status" :> cs[3].body[1])
    @@ ("measures" :> cs[Len(cs)].body[1])

UpdateBegin(r) ==
    /\ upc' = "async_authenticate"
    /\ reason' = r
    /\ calls' = <<>>
    /\ dreqs' = <<>>
    /\ StartCall("async_authenticate", NoneV, NoneV)

UpdateFails ==
    /\ upc' = "failed"
    /\ cpc' = "idle"
    /\ UNCHANGED <<op, cres, attempt, treqs>>

\* after `await self.api.async_authenticate()`: get_home_id, from the cache or by
\* GET /api/homesdata
AfterAuthenticate ==
    /\ upc = "async_authenticate"
    /\ cpc = "done"
    /\ LET c == Call("async_authenticate", NoneV, NoneV, cres) IN
       IF AuthOk(cres.status)
       THEN IF home_cache # <<>>
            THEN /\ calls' = calls \o <<c, Call("get_home_id", home_cache[1].id, NoneV, Ok)>>
                 /\ upc' = "homestatus"
                 /\ StartCall("post_homestatus", home_cache[1].id, NoneV)
            ELSE /\ calls' = Append(calls, c)
                 /\ upc' = "get_home_id"
                 /\ StartCall("get_homesdata", NoneV, NoneV)
       ELSE /\ calls' = Append(calls, c)
            /\ UpdateFails
    /\ UNCHANGED <<auth, now, dreqs>>
    /\ UNCHANGED <<home_cache, reason, data, spc, forwarded, plat, sensors, climates, polls>>
    /\ UNCHANGED evars

\* get_home_id, after GET /api/homesdata: the home is extracted and cached
AfterHomesdata ==
    /\ upc = "get_home_id"
    /\ cpc = "done"
    /\ LET r == IF cres.status = "ok" THEN GetHome(cres.body) ELSE cres IN
       IF r.status = "ok"
       THEN /\ home_cache' = <<r.home>>
            /\ calls' = Append(calls, Call("get_home_id", r.home.id, NoneV, Ok))
            /\ upc' = "homestatus"
            /\ StartCall("post_homestatus", r.home.id, NoneV)
       ELSE /\ calls' = Append(calls, Call("get_home_id", NoneV, NoneV, r))
            /\ UpdateFails
            /\ UNCHANGED home_cache
    /\ UNCHANGED <<auth, now, dreqs>>
    /\ UNCHANGED <<reason, data, spc, forwarded, plat, sensors, climates, polls>>
    /\ UNCHANGED evars

\* after `status = await self.api.homestatus(home_id)`
AfterHomestatus ==
    /\ upc = "homestatus"
    /\ cpc = "done"
    /\ calls' = Append(calls, Call("homestatus", op.hid, NoneV, cres))
    /\ IF cres.status = "ok"
       THEN /\ upc' = "gethomemeasure"
            /\ StartMeasure(calls[2].hid, "energy")
       ELSE UpdateFails
    /\ UNCHANGED <<auth, now, dreqs>>
    /\ UNCHANGED <<home_cache, reason, data, spc, forwarded, plat, sensors, climates, polls>>
    /\ UNCHANGED evars

\* after gethomemeasure, with type "energy" or without a type
AfterMeasure ==
    /\ upc = "gethomemeasure"
    /\ cpc = "done"
    /\ calls' = Append(calls, Call("gethomemeasure", op.hid, op.rtype, cres))
    /\ IF cres.status = "ok"
       THEN /\ upc' = "succeeded"
            /\ cpc' = "idle"
            /\ UNCHANGED <<op, cres, attempt, treqs>>
       ELSE IF MeasureRetries(cres.status, op.rtype)
       THEN /\ StartMeasure(calls[2].hid, NoneV)
            /\ UNCHANGED upc
       ELSE UpdateFails
    /\ UNCHANGED <<auth, now, dreqs>>
    /\ UNCHANGED <<home_cache, reason, data, spc, forwarded, plat, sensors, climates, polls>>
    /\ UNCHANGED evars

----------------------------------------------------------------------------
(* The integration's async_setup_entry, the platforms and their entities    *)

\* payload.get(key) is a non-empty value
HasValue(d, key) == key \in DOMAIN d

\* home.get("rooms", []) with home = payload.get("home") or {}
HomeRooms(d) == IF HasValue(d, "home") THEN RoomsOf(d["home"]) ELSE <<>>

_extract_energy_day_value(measures) ==
    IF measures.measures = <<>> THEN <<>> ELSE <<measures.measures[1].value>>

\* _find_room_in_payload(status, room_id): the rooms of the status with that id
_find_room_in_payload(status, room_id) ==
    SelectSeq(status.rooms, LAMBDA r : r.id = room_id)

\* _get_room_field(status, room_id, "therm_measured_temperature")
MeasuredOf(status, room_id) ==
    LET rs == _find_room_in_payload(status, room_id)
    IN  IF rs = <<>> THEN <<>> ELSE <<rs[1].therm_measured_temperature>>

\* the entities sensor.async_setup_entry adds: each keeps the value it was built
\* with. The payloads have no modules and no therm_mode: the modules count is 0
\* and no therm mode sensor is added
SensorEntities(d) ==
    {[cls |-> "IntuisEnergyHomeSensor", name |-> "Energy Today", room |-> NoneV,
      value |-> _extract_energy_day_value(d["measures"])[1]] :
         x \in {1} \cap {Len(_extract_energy_day_value(d["measures"]))}}
    \cup {[cls |-> "IntuisSimpleNumberSensor", name |-> "Rooms Count", room |-> NoneV,
           value |-> Len(HomeRooms(d))],
          [cls |-> "IntuisSimpleNumberSensor", name |-> "Modules Count", room |-> NoneV,
           value |-> 0]}
    \cup {[cls |-> "IntuisRoomTempSensor", name |-> "Measured", room |-> HomeRooms(d)[i],
           value |-> MeasuredOf(d["status"], HomeRooms(d)[i])[1]] :
              i \in {j \in 1..Len(HomeRooms(d)) :
                        /\ HomeRooms(d)[j] # NoneV
                        /\ MeasuredOf(d["status"], HomeRooms(d)[j]) # <<>>}}

\* native_value of a sensor entity
native_value(e) == e.value

\* the entities climate.async_setup_entry adds: one per room of the home
ClimateEntities(d) ==
    {[cls |-> "IntuisRoomClimate", room |-> HomeRooms(d)[i]] :
        i \in {j \in 1..Len(HomeRooms(d)) : HomeRooms(d)[j] # NoneV}}

\* IntuisRoomClimate.current_temperature: read from coordinator.data at each call
current_temperature(e, d) == MeasuredOf(d["status"], e.room)

Finished == upc \in {"succeeded", "failed"}

\* the host keeps the data of the last successful update
NewData == IF upc = "succeeded" THEN <<UpdateResult(calls)>> ELSE data

\* _async_update_data has returned or raised: its locals are gone
UpdateEnd ==
    /\ data' = NewData
    /\ upc' = "idle"
    /\ reason' = "none"
    /\ calls' = <<>>
    /\ dreqs' = <<>>
    /\ treqs' = <<>>
    /\ op' = NoOp
    /\ cres' = NoRes
    /\ attempt' = 0
    /\ UNCHANGED <<auth, now, cpc>>

\* async_setup_entry: api and coordinator are built, the first refresh starts
SetupEntryStart ==
    /\ spc \in {"init", "not_ready"}
    /\ upc = "idle"
    /\ spc' = "first_refresh"
    /\ UpdateBegin("setup")
    /\ UNCHANGED <<auth, now>>
    /\ UNCHANGED <<home_cache, data, forwarded, plat, sensors, climates, polls>>
    /\ UNCHANGED evars

\* async_setup_entry, after the first refresh: the entry is forwarded to PLATFORMS
\* and True is returned, or the refresh failed and the host will set up again
SetupEntryFinish ==
    /\ spc = "first_refresh"
    /\ Finished
    /\ IF upc = "succeeded"
       THEN /\ spc' = "done"
            /\ forwarded' = PLATFORMS
            /\ plat' = [p \in PLATFORMS |-> "pending"]
       ELSE /\ spc' = "not_ready"
            /\ UNCHANGED <<forwarded, plat>>
    /\ UpdateEnd
    /\ UNCHANGED <<home_cache, sensors, climates, polls>>
    /\ UNCHANGED evars

\* a platform's async_setup_entry: it refreshes the coordinator first
PlatformSetupStart ==
    /\ spc = "done"
    /\ upc = "idle"
    /\ \E p \in DOMAIN plat :
          /\ plat[p] = "pending"
          /\ plat' = [plat EXCEPT ![p] = "refreshing"]
          /\ UpdateBegin(p)
    /\ UNCHANGED <<auth, now>>
    /\ UNCHANGED <<home_cache, data, spc, forwarded, sensors, climates, polls>>
    /\ UNCHANGED evars

\* sensor.async_setup_entry, after its refresh: the sensors are built from the data
SensorSetupFinish ==
    /\ "sensor" \in DOMAIN plat
    /\ plat["sensor"] = "refreshing"
    /\ Finished
    /\ IF upc = "succeeded"
       THEN /\ sensors' = SensorEntities(NewData[1])
            /\ plat' = [plat EXCEPT !["sensor"] = "loaded"]
       ELSE /\ plat' = [plat EXCEPT !["sensor"] = "failed"]
            /\ UNCHANGED sensors
    /\ UpdateEnd
    /\ UNCHANGED <<home_cache, spc, forwarded, climates, polls>>
    /\ UNCHANGED evars

\* climate.async_setup_entry, after its refresh: one climate entity per room
ClimateSetupFinish ==
    /\ "climate" \in DOMAIN plat
    /\ plat["climate"] = "refreshing"
    /\ Finished
    /\ IF upc = "succeeded"
       THEN /\ climates' = ClimateEntities(NewData[1])
            /\ plat' = [plat EXCEPT !["climate"] = "loaded"]
       ELSE /\ plat' = [plat EXCEPT !["climate"] = "failed"]
            /\ UNCHANGED climates
    /\ UpdateEnd
    /\ UNCHANGED <<home_cache, spc, forwarded, sensors, polls>>
    /\ UNCHANGED evars

\* the host's scheduled refresh starts
PollStart ==
    /\ spc = "done"
    /\ upc = "idle"
    /\ \A p \in DOMAIN plat : plat[p] \in {"loaded", "failed"}
    /\ polls < MaxPolls
    /\ polls' = polls + 1
    /\ UpdateBegin("poll")
    /\ UNCHANGED <<auth, now>>
    /\ UNCHANGED <<home_cache, data, spc, forwarded, plat, sensors, climates>>
    /\ UNCHANGED evars

\* the scheduled refresh ends: the entities are told to write their state
PollFinish ==
    /\ reason = "poll"
    /\ Finished
    /\ UpdateEnd
    /\ UNCHANGED <<home_cache, spc, forwarded, plat, sensors, climates, polls>>
    /\ UNCHANGED evars

\* the client steps of a coordinator update
RefreshResponseStep == RefreshResponse(CoordTokenResponses)

LoginResponseStep == LoginResponse(CoordTokenResponses)

NextCoord ==
    \/ SetupEntryStart
    \/ SetupEntryFinish
    \/ PlatformSetupStart
    \/ SensorSetupFinish
    \/ ClimateSetupFinish
    \/ PollStart
    \/ PollFinish
    \/ EnsureToken
    \/ RefreshResponseStep
    \/ LoginResponseStep
    \/ AuthenticateReturn
    \/ SendRequest
    \/ DataResponse
    \/ AfterAuthenticate
    \/ AfterHomesdata
    \/ AfterHomestatus
    \/ AfterMeasure

InitCoord == EFixed /\ AInit /\ HInit

SpecCoord == InitCoord /\ [][NextCoord]_vars

----------------------------------------------------------------------------
(* C1: the home object of the payload is the dict returned                  *)

Done == epc \in {"returned", "raised"}

\* a dict with a non-blank id and a rooms list
IsHomeObject(h, r) ==
    /\ h[r].kind = "dict"
    /\ ScGet(h[r], "id") # NoneV
    /\ StrStrip(ScGet(h[r], "id")) # ""
    /\ HasKid(h[r], "rooms")
    /\ h[KidRef(h[r], "rooms")].kind = "list"

\* r is the root, root.home, root.body.home or an element of root.homes
AtClaimedPlace(p, r) ==
    LET h == p.heap
        root == h[p.root]
    IN  \/ r = p.root
        \/ /\ root.kind = "dict"
           /\ \/ HasKid(root, "home") /\ KidRef(root, "home") = r
              \/ /\ HasKid(root, "body")
                 /\ h[KidRef(root, "body")].kind = "dict"
                 /\ HasKid(h[KidRef(root, "body")], "home")
                 /\ KidRef(h[KidRef(root, "body")], "home") = r
              \/ /\ HasKid(root, "homes")
                 /\ h[KidRef(root, "homes")].kind = "list"
                 /\ \E i \in 1..Len(h[KidRef(root, "homes")].kids) :
                        h[KidRef(root, "homes")].kids[i][2] = r

\* r is the one home object of the payload, at one of the claimed places
TheHome(p, r) ==
    /\ IsHomeObject(p.heap, r)
    /\ AtClaimedPlace(p, r)
    /\ \A o \in DOMAIN p.heap : IsHomeObject(p.heap, o) => o = r

\* every other dict with a non-blank id scores lower than r, or the same without
\* a rooms key
Dominates(p, r) ==
    \A o \in DOMAIN p.heap \ {r} :
        IsCandidate(p.heap[o]) =>
            \/ _score_candidate(p.heap, p.heap[o]) < _score_candidate(p.heap, p.heap[r])
            \/ /\ _score_candidate(p.heap, p.heap[o]) = _score_candidate(p.heap, p.heap[r])
               /\ ~HasKey(p.heap[o], "rooms")

----------------------------------------------------------------------------
(* C2..C5: the token lifecycle                                              *)

\* ensure_token has returned without raising
EnsureReturned ==
    \/ cpc = "send"
    \/ op.name = "async_authenticate" /\ cpc = "done" /\ cres.status = "ok"

\* C2: whenever ensure_token (async_authenticate) returns without raising, the
\* stored access_token is non-empty and the next request carries a bearer header.
C2_TokenAvailable ==
    EnsureReturned => (Truthy(auth.access_token) /\ _auth_headers(auth) # NoneV)

\* C3: ensure_token sends no token request and leaves the auth state unchanged
\* when an access token is held and now < expires_at - 60; otherwise (token
\* missing, expires_at unset, or now >= expires_at - 60) it sends a token request.
C3_LazyAuth ==
    [][(cpc = "ensure" /\ cpc' # "ensure") =>
          IF /\ Truthy(auth.access_token)
             /\ auth.expires_at # <<>>
             /\ now < auth.expires_at[1] - 60
          THEN treqs' = treqs /\ auth' = auth
          ELSE Len(treqs') = Len(treqs) + 1]_vars

\* ensure_token returned at once although time has passed since the token was stored
C3_Witness ==
    /\ op.name = "async_authenticate"
    /\ cpc = "send"
    /\ treqs = <<>>
    /\ now > 0
    /\ Truthy(auth.access_token)
    /\ auth.expires_at # <<>>
    /\ now < auth.expires_at[1] - 60

\* C4: in one ensure_token call the refresh grant comes first when a refresh token
\* is held; a password request is sent only when no refresh token is held or the
\* request before it failed with IntuisApiError, so never after a successful refresh.
C4_RefreshFirst ==
    [][(op'.name = "async_authenticate" /\ cpc # "idle"
        /\ Len(treqs') = Len(treqs) + 1) =>
          LET new == treqs'[Len(treqs')] IN
          /\ (treqs = <<>> /\ Truthy(auth.refresh_token)) => new.grant = "refresh_token"
          /\ new.grant = "refresh_token" => (treqs = <<>> /\ Truthy(auth.refresh_token))
          /\ new.grant = "password" =>
                \/ treqs = <<>> /\ ~Truthy(auth.refresh_token)
                \/ treqs # <<>> /\ treqs'[Len(treqs)].outcome = "api_error"]_vars

\* a refresh failed with IntuisApiError and the login that followed succeeded
C4_Witness ==
    /\ op.name = "async_authenticate"
    /\ cpc = "send"
    /\ Len(treqs) = 2
    /\ treqs[1].grant = "refresh_token" /\ treqs[1].outcome = "api_error"
    /\ treqs[2].grant = "password" /\ treqs[2].outcome = "ok"

PasswordReqs == SelectSeq(treqs, LAMBDA r : r.grant = "password")

\* C5: login sends at most 3 password requests; every request before the last one
\* failed with IntuisApiError; login returns on the first answer that is a token
\* object, whose token is stored; the third failure raises IntuisApiError.
C5_LoginBounded ==
    /\ Len(PasswordReqs) <= 3
    /\ \A i \in 1..(Len(PasswordReqs) - 1) : PasswordReqs[i].outcome = "api_error"
    /\ (op.name = "login" /\ cpc \in {"done", "idle"} /\ cres.status = "ok") =>
          /\ PasswordReqs[Len(PasswordReqs)].outcome = "ok"
          /\ auth.access_token = PasswordReqs[Len(PasswordReqs)].token
    /\ (op.name = "login" /\ Len(PasswordReqs) = 3
        /\ PasswordReqs[3].outcome = "api_error") =>
          (cpc \in {"done", "idle"} /\ cres.status = "api_error")
    /\ (op.name = "login" /\ cres.status = "api_error") =>
          (Len(PasswordReqs) = 3 /\ PasswordReqs[3].outcome = "api_error")

\* login gave up after three failed requests
C5_Witness ==
    /\ op.name = "login"
    /\ cpc = "done"
    /\ cres.status = "api_error"
    /\ Len(treqs) = 3

\* login returned on its second request
C5_WitnessOk ==
    /\ op.name = "login"
    /\ cpc = "done"
    /\ cres.status = "ok"
    /\ Len(treqs) = 2

----------------------------------------------------------------------------
(* C6: what a successful update returns                                     *)

\* C6 (as stated): the dict a successful _async_update_data returns holds the
\* home object under `home`, the homestatus payload under `status` and the
\* gethomemeasure payload under `measures`
C6_MergedHome ==
    upc = "succeeded" =>
        {"home", "status", "measures"} \subseteq DOMAIN UpdateResult(calls)

----------------------------------------------------------------------------
(* C7: the entities and the latest data                                     *)

\* the field of the data an entity stands for, <<>> when the data has none
LatestField(e, d) ==
    CASE e.cls = "IntuisEnergyHomeSensor" -> _extract_energy_day_value(d["measures"])
      [] e.cls = "IntuisRoomTempSensor" -> MeasuredOf(d["status"], e.room)
      [] e.name = "Rooms Count" -> <<Len(HomeRooms(d))>>
      [] OTHER -> <<0>>

\* C7 (as stated): once a refresh is over, every sensor's native_value and every
\* climate entity's current temperature is the field of the latest data
C7_EntitiesFollowData ==
    (upc = "idle" /\ data # <<>>) =>
        /\ \A e \in sensors : <<native_value(e)>> = LatestField(e, data[1])
        /\ \A e \in climates :
               current_temperature(e, data[1]) = MeasuredOf(data[1]["status"], e.room)

----------------------------------------------------------------------------
(* C8: the platforms of the entry                                           *)

\* C8 (as stated): once async_setup_entry has returned True the entry has been
\* forwarded to climate, sensor, binary_sensor and select
C8_AllPlatformsForwarded ==
    spc = "done" => forwarded = {"climate", "sensor", "binary_sensor", "select"}

----------------------------------------------------------------------------
(* C9: an IntuisApiError during the update                                  *)

\* C9 (as stated): a call of the update that raised IntuisApiError is the last
\* call of the update, and the update has failed
C9_NoRecovery ==
    \A i \in 1..Len(calls) :
        calls[i].status = "api_error" => (i = Len(calls) /\ upc = "failed")

\* call i of cs is gethomemeasure with type "energy"
IsEnergyCall(cs, i) == cs[i].name = "gethomemeasure" /\ cs[i].rtype = "energy"

\* call i of cs is followed by nothing but one gethomemeasure without type for
\* the same home, made or in progress
RetriedOnce(cs, i, u, o) ==
    \/ /\ i = Len(cs)
       /\ u = "gethomemeasure"
       /\ o.name = "post_gethomemeasure"
       /\ o.hid = cs[i].hid
       /\ o.rtype = NoneV
    \/ /\ i = Len(cs) - 1
       /\ cs[i + 1].name = "gethomemeasure"
       /\ cs[i + 1].rtype = NoneV
       /\ cs[i + 1].hid = cs[i].hid

\* C9 (amended): a call that raised IntuisApiError ends the update with
\* UpdateFailed, unless it is gethomemeasure with type "energy": that one is
\* followed by exactly one gethomemeasure without type, whose IntuisApiError
\* ends the update; a failed update sends no further request
C9_FailsExceptEnergyRetry ==
    [][/\ \A i \in 1..Len(calls') :
             calls'[i].status = "api_error" =>
                 IF IsEnergyCall(calls', i)
                 THEN RetriedOnce(calls', i, upc', op')
                 ELSE i = Len(calls') /\ upc' = "failed" /\ cpc' = "idle"
       /\ upc = "failed" =>
             /\ Len(dreqs') <= Len(dreqs)
             /\ Len(treqs') <= Len(treqs)]_vars

\* the update failed on the IntuisApiError of the retry without type
C9_Witness ==
    /\ upc = "failed"
    /\ Len(calls) = 5
    /\ calls[4].status = "api_error"
    /\ calls[5].status = "api_error"

----------------------------------------------------------------------------
(* C10: the order of the calls of one update                                *)

CallOrder == <<"async_authenticate", "get_home_id", "homestatus", "gethomemeasure">>

\* the calls made so far are a prefix of the order, with n calls at most
InOrder(n) ==
    /\ Len(calls) <= n
    /\ \A i \in 1..Len(calls) :
           calls[i].name = CallOrder[IF i < 4 THEN i ELSE 4]

\* the call in progress is the one after the calls made
OneAtATime ==
    /\ upc = "async_authenticate" => calls = <<>>
    /\ upc = "get_home_id" => Len(calls) = 1
    /\ upc = "homestatus" => Len(calls) = 2
    /\ upc = "gethomemeasure" => Len(calls) \in {3, 4}
    /\ upc = "succeeded" => Len(calls) \in {4, 5}

\* homestatus and gethomemeasure, made, in progress or sent, carry the home id
\* get_home_id returned in this update
SameHome ==
    /\ \A i \in 3..Len(calls) : calls[i].hid = calls[2].hid
    /\ upc \in {"homestatus", "gethomemeasure"} =>
           calls[2].status = "ok" /\ op.hid = calls[2].hid
    /\ \A k \in 1..Len(dreqs) :
           dreqs[k].endpoint \in {"post_homestatus", "post_gethomemeasure"} =>
               Len(calls) >= 2 /\ dreqs[k].hid = calls[2].hid

\* C10 (as stated): the calls are async_authenticate, get_home_id, homestatus,
\* gethomemeasure in that order, each made after the one before it succeeded,
\* homestatus and gethomemeasure with the home id of this update
C10_EachAfterSuccess ==
    /\ InOrder(4)
    /\ OneAtATime
    /\ \A i \in 1..Len(calls) : i < Len(calls) => calls[i].status = "ok"
    /\ upc \notin {"idle", "failed"} => \A i \in 1..Len(calls) : calls[i].status = "ok"
    /\ SameHome

\* C10 (amended): the same, except that a gethomemeasure with type "energy"
\* that raised IntuisApiError is followed by a second gethomemeasure, without
\* type, for the same home
C10_OrderedCalls ==
    /\ InOrder(5)
    /\ OneAtATime
    /\ \A i \in 1..Len(calls) :
           (i < Len(calls) \/ upc \notin {"idle", "failed"}) =>
               \/ calls[i].status = "ok"
               \/ /\ i = 4
                  /\ calls[i].status = "api_error"
                  /\ IsEnergyCall(calls, i)
                  /\ RetriedOnce(calls, i, upc, op)
    /\ Len(calls) = 5 => calls[4].status = "api_error" /\ IsEnergyCall(calls, 4)
    /\ SameHome

\* an update succeeded through the second gethomemeasure
C10_Witness ==
    /\ upc = "succeeded"
    /\ Len(calls) = 5
    /\ calls[5].status = "ok"
    /\ calls[5].hid = calls[2].hid

----------------------------------------------------------------------------
(* IntuisApi.get_home and get_home_id, called in any order on one IntuisApi *)

MaxCalls == 3

\* a call of get_home or get_home_id as it ended: the id of the home
\* returned, and the /api/homesdata and /oauth2/token requests it sent
ApiCall(name, status, hid) ==
    [name |-> name, status |-> status, hid |-> hid,
     sent |-> Len(dreqs), tsent |-> Len(treqs)]

\* the cache never answers
CacheHitNever(cache) == FALSE

\* `cached` is a dict whose id is not blank
CacheHit(cache) == cache # <<>> /\ StrStrip(cache[1].id) # ""

\* get_home() or get_home_id() is called and the cache answers
GetHomeCached ==
    /\ cpc = "idle"
    /\ Len(calls) < MaxCalls
    /\ CacheHit(home_cache)
    /\ \E name \in {"get_home", "get_home_id"} :
          /\ dreqs' = <<>>
          /\ treqs' = <<>>
          /\ calls' = Append(calls, [ApiCall(name, "ok", home_cache[1].id)
                                        EXCEPT !.sent = 0, !.tsent = 0])
    /\ UNCHANGED <<auth, now, cpc, op, cres, attempt>>
    /\ UNCHANGED <<home_cache, upc, reason, data, spc, forwarded, plat, sensors,
                   climates, polls>>
    /\ UNCHANGED evars

\* get_home() or get_home_id() is called and the cache is unset: get_homesdata
GetHomeFetch ==
    /\ cpc = "idle"
    /\ Len(calls) < MaxCalls
    /\ ~CacheHit(home_cache)
    /\ \E name \in {"get_home", "get_home_id"} : upc' = name
    /\ dreqs' = <<>>
    /\ StartCall("get_homesdata", NoneV, NoneV)
    /\ UNCHANGED <<auth, now>>
    /\ UNCHANGED <<home_cache, reason, calls, data, spc, forwarded, plat, sensors,
                   climates, polls>>
    /\ UNCHANGED evars

\* get_homesdata has returned or raised: the home is extracted, normalized and
\* cached, or the exception leaves the cache as it was
GetHomeReturn ==
    /\ upc \in {"get_home", "get_home_id"}
    /\ cpc = "done"
    /\ LET r == IF cres.status = "ok" THEN GetHome(cres.body) ELSE cres IN
       IF r.status = "ok"
       THEN /\ home_cache' = <<r.home>>
            /\ calls' = Append(calls, ApiCall(upc, "ok", r.home.id))
       ELSE /\ calls' = Append(calls, ApiCall(upc, r.status, NoneV))
            /\ UNCHANGED home_cache
    /\ upc' = "idle"
    /\ cpc' = "idle"
    /\ UNCHANGED <<auth, now, op, cres, attempt, treqs, dreqs>>
    /\ UNCHANGED <<reason, data, spc, forwarded, plat, sensors, climates, polls>>
    /\ UNCHANGED evars

NextApi ==
    \/ GetHomeCached
    \/ GetHomeFetch
    \/ GetHomeReturn
    \/ EnsureToken
    \/ RefreshResponseStep
    \/ LoginResponseStep
    \/ SendRequest
    \/ DataResponse

InitApi == EFixed /\ AInit /\ HInit

SpecApi == InitApi /\ [][NextApi]_vars

----------------------------------------------------------------------------
(* C11: the home cache                                                      *)

\* no call before call j succeeded
FirstTry(j) == \A i \in 1..(j - 1) : calls[i].status # "ok"

\* C11: after a get_home or get_home_id that succeeded, every later call
\* returns the same home id and sends no request; a call that raised leaves
\* the cache unset, and a call made with the cache unset fetches /api/homesdata
C11_HomeCached ==
    /\ \A i \in 1..Len(calls) : \A j \in (i + 1)..Len(calls) :
           calls[i].status = "ok" =>
               /\ calls[j].status = "ok"
               /\ calls[j].hid = calls[i].hid
               /\ calls[j].sent = 0
               /\ calls[j].tsent = 0
    /\ \A i \in 1..Len(calls) :
           calls[i].status = "ok" => CacheHit(home_cache) /\ home_cache[1].id = calls[i].hid
    /\ FirstTry(Len(calls) + 1) => home_cache = <<>>
    /\ \A j \in 1..Len(calls) :
           (FirstTry(j) /\ calls[j].status = "ok") => calls[j].sent = 1
    /\ (upc \in {"get_home", "get_home_id"} /\ cpc = "done" /\ cres.status = "ok") =>
           FirstTry(Len(calls) + 1) /\ Len(dreqs) = 1

\* a call raised, the next one fetched and succeeded, the third was answered by
\* the cache
C11_Witness ==
    /\ Len(calls) = 3
    /\ calls[1].status = "api_error"
    /\ calls[1].sent = 1
    /\ calls[2].status = "ok"
    /\ calls[2].sent = 1
    /\ calls[3].status = "ok"
    /\ calls[3].sent = 0
    /\ calls[3].name # calls[2].name

----------------------------------------------------------------------------
(* IntuisApi.get_home_id as a function of the /api/homesdata payload        *)

IdValues == {Absent, NoneV, "", " ", " h1 ", "#0", "h1"}

\* the scalars of a dict holding the id keys that are present
IdSc(id, uid, hid) ==
    (IF id = Absent THEN EmptyFcn ELSE "id" :> id)
    @@ (IF uid = Absent THEN EmptyFcn ELSE "_id" :> uid)
    @@ (IF hid = Absent THEN EmptyFcn ELSE "home_id" :> hid)

\* a payload whose home dict H holds these id keys and a rooms list, the room
\* with an id of its own or without; H is the root, under home, or in a list
MkIdPayload(place, id, uid, hid, rid) ==
    [root |-> IF place = "root" THEN "H" ELSE "W",
     heap |->
        ("H" :> Dict(IdSc(id, uid, hid) @@ ("name" :> "Maison"), <<<<"rooms", "RL">>>>))
        @@ ("RL" :> List(EmptyFcn, <<<<"", "R">>>>))
        @@ ("R" :> Dict(IdSc(rid, Absent, Absent) @@ ("name" :> "Salon"), <<>>))
        @@ (IF place = "home" THEN "W" :> Dict(("status" :> "ok"), <<<<"home", "H">>>>)
            ELSE IF place = "list" THEN "W" :> List(EmptyFcn, <<<<"", "H">>>>)
            ELSE EmptyFcn)]

IdPayloads ==
    {MkIdPayload(place, id, uid, hid, rid) :
        place \in {"root", "home", "list"}, id \in IdValues,
        uid \in {Absent, " ", "h2"}, hid \in {Absent, "", "h3"},
        rid \in {Absent, "r1"}}

\* the id kept as it is
HomeIdUnstripped(obj) ==
    IF Truthy(CandidateId(obj)) THEN CandidateId(obj) ELSE ""

\* str(home.get("id") or home.get("_id") or home.get("home_id") or "").strip()
HomeId(obj) ==
    StrStrip(IF Truthy(CandidateId(obj)) THEN CandidateId(obj) ELSE "")

\* get_home() on an unset cache, from the payload on: the normalized home
\* (the dict found, with its id replaced by hid), or the exception raised
get_home(p) ==
    LET home == ExtractHome(p) IN
    IF home = NoneV THEN [status |-> "api_error"]
    ELSE IF p.heap[home].kind # "dict" THEN [status |-> "api_error"]
    ELSE IF HomeId(p.heap[home]) = "" THEN [status |-> "api_error"]
    ELSE [status |-> "ok",
          home |-> [p.heap[home] EXCEPT
                       !.sc = ("id" :> HomeId(p.heap[home])) @@ p.heap[home].sc]]

\* get_home_id() on an unset cache: the value returned, or the exception raised
get_home_id(p) ==
    LET r == get_home(p) IN
    IF r.status # "ok" THEN r
    ELSE IF HomeId(r.home) = "" THEN [status |-> "api_error"]
    ELSE [status |-> "ok", value |-> HomeId(r.home)]

\* get_home_id() runs on the payload
GetHomeIdStep ==
    /\ epc = "bfs"
    /\ cres = NoRes
    /\ cres' = get_home_id(payload)
    /\ eresult' = ExtractHome(payload)
    /\ epc' = IF ExtractHome(payload) = NoneV THEN "raised" ELSE "returned"
    /\ UNCHANGED <<payload, queue, seen, best, best_score>>
    /\ UNCHANGED <<auth, now, cpc, op, attempt, treqs, dreqs>>
    /\ UNCHANGED hvars

NextHomeId == GetHomeIdStep

InitHomeId == EInit(IdPayloads \cup Payloads) /\ AInit /\ HInit

SpecHomeId == InitHomeId /\ [][NextHomeId]_vars

----------------------------------------------------------------------------
(* C12: what get_home_id returns                                            *)

\* a dict of the payload has a non-blank id, _id or home_id
HasNonBlankId(p) ==
    \E n \in DOMAIN p.heap :
        /\ p.heap[n].kind = "dict"
        /\ \E k \in {"id", "_id", "home_id"} :
               /\ ScGet(p.heap[n], k) # NoneV
               /\ StrStrip(ScGet(p.heap[n], k)) # ""

\* the first truthy of a, b, c, or NoneV
FirstTruthy(a, b, c) ==
    IF Truthy(a) THEN a ELSE IF Truthy(b) THEN b ELSE IF Truthy(c) THEN c ELSE NoneV

\* C12: get_home_id returns a non-empty stripped string, the first truthy of
\* id, _id, home_id of the home found, or raises IntuisApiError; it raises
\* IntuisApiError when no dict of the payload has a non-blank id, _id or home_id
C12_IdOrApiError ==
    cres # NoRes =>
        /\ cres.status \in {"ok", "api_error"}
        /\ cres.status = "ok" =>
               /\ cres.value \notin {"", NoneV, "None"}
               /\ StrStrip(cres.value) = cres.value
               /\ eresult # NoneV
               /\ LET obj == payload.heap[eresult] IN
                  cres.value = StrStrip(FirstTruthy(ScGet(obj, "id"), ScGet(obj, "_id"),
                                                    ScGet(obj, "home_id")))
        /\ ~HasNonBlankId(payload) => cres.status = "api_error"
        /\ (\A n \in DOMAIN payload.heap :
               FirstTruthy(ScGet(payload.heap[n], "id"), ScGet(payload.heap[n], "_id"),
                           ScGet(payload.heap[n], "home_id")) \in {NoneV, " "})
               => cres.status = "api_error"

\* an id that needed stripping was returned stripped
C12_Witness ==
    /\ cres # NoRes
    /\ cres.status = "ok"
    /\ cres.value = "h1"
    /\ ScGet(payload.heap[eresult], "id") = " h1 "

\* no dict has an id: IntuisApiError
C12_WitnessRaise ==
    /\ cres # NoRes
    /\ cres.status = "api_error"
    /\ ~HasNonBlankId(payload)

----------------------------------------------------------------------------
(* IntuisApi.set_room_mode.  An argument is <<>> (None) or <<[t, v]>>: its   *)
(* type and its value in tenths.                                            *)

Num(t, v) == <<[t |-> t, v |-> v]>>

TempValues == {<<>>, Num("int", 200), Num("float", 205), Num("str", 200)}

EndValues == {<<>>, Num("int", 17000), Num("float", 17009), Num("str", 17000)}

RoomArgs ==
    [mode : {"manual", " Home "}, temp : TempValues, endtime : EndValues,
     use_setstate : BOOLEAN]

\* the argument is not None
IsGiven(x) == x # <<>>

\* isinstance(x, (int, float))
IsNumber(x) == x # <<>> /\ x[1].t \in {"int", "float"}

\* float(x)
ToFloat(x) == Num("float", x[1].v)

\* int(x): the fraction is cut off
ToInt(x) == Num("int", (x[1].v \div 10) * 10)

RoomEndpoints == {"post_setstate_rooms", "post_setroomthermpoint"}

\* the request post_setstate_rooms sends: body.home.id, and id,
\* therm_setpoint_mode, therm_setpoint_temperature, therm_setpoint_end_time of
\* its one room
post_setstate_rooms(home_id, room_id, a, bearer) ==
    [endpoint |-> "/syncapi/v1/setstate", hid |-> home_id, room |-> room_id,
     mode |-> a.mode,
     temp |-> IF IsNumber(a.temp) THEN ToFloat(a.temp) ELSE <<>>,
     endtime |-> IF IsNumber(a.endtime) THEN ToInt(a.endtime) ELSE <<>>,
     bearer |-> bearer]

\* the request post_setroomthermpoint sends: the form home_id, room_id, mode,
\* temp, endtime
post_setroomthermpoint(home_id, room_id, a, bearer) ==
    [endpoint |-> "/api/setroomthermpoint", hid |-> home_id, room |-> room_id,
     mode |-> a.mode,
     temp |-> IF IsNumber(a.temp) THEN ToFloat(a.temp) ELSE <<>>,
     endtime |-> IF IsNumber(a.endtime) THEN ToInt(a.endtime) ELSE <<>>,
     bearer |-> bearer]

\* set_room_mode(home_id, room_id, mode, temp=, endtime=, use_setstate=) is called
SetRoomModeCall ==
    /\ cpc = "idle"
    /\ \E a \in RoomArgs :
          op' = [name |-> IF a.use_setstate THEN "post_setstate_rooms"
                          ELSE "post_setroomthermpoint",
                 hid |-> "h1", rtype |-> NoneV, room |-> "r1", args |-> a]
    /\ cpc' = "ensure"
    /\ cres' = NoRes
    /\ attempt' = 0
    /\ treqs' = <<>>
    /\ dreqs' = <<>>
    /\ UNCHANGED <<auth, now>>
    /\ UNCHANGED <<evars, hvars>>

\* ensure_token has returned: the request of the client method is sent
SendRoomCommand ==
    /\ cpc = "send"
    /\ op.name \in RoomEndpoints
    /\ dreqs' = Append(dreqs,
                    IF op.name = "post_setstate_rooms"
                    THEN post_setstate_rooms(op.hid, op.room, op.args, _auth_headers(auth))
                    ELSE post_setroomthermpoint(op.hid, op.room, op.args,
                                                _auth_headers(auth)))
    /\ cpc' = "request_wait"
    /\ UNCHANGED <<auth, now, op, cres, attempt, treqs>>
    /\ UNCHANGED <<evars, hvars>>

\* _request_json: the answer to the room request
RoomCommandResponse ==
    /\ cpc = "request_wait"
    /\ op.name \in RoomEndpoints
    /\ \E st \in {"ok", "api_error", "other_error"} : cres' = [status |-> st]
    /\ cpc' = "done"
    /\ UNCHANGED <<auth, now, op, attempt, treqs, dreqs>>
    /\ UNCHANGED <<evars, hvars>>

\* set_room_mode returns or raises
SetRoomModeReturn ==
    /\ cpc = "done"
    /\ op.name \in RoomEndpoints
    /\ cpc' = "idle"
    /\ UNCHANGED <<auth, now, op, cres, attempt, treqs, dreqs>>
    /\ UNCHANGED <<evars, hvars>>

NextRoom ==
    \/ SetRoomModeCall
    \/ EnsureToken
    \/ RefreshResponseStep
    \/ LoginResponseStep
    \/ SendRoomCommand
    \/ RoomCommandResponse
    \/ SetRoomModeReturn

InitRoom == EFixed /\ AInit /\ HInit

SpecRoom == InitRoom /\ [][NextRoom]_vars

----------------------------------------------------------------------------
(* C13: the request of set_room_mode                                        *)

\* ensure_token raised: the last /oauth2/token request of the call failed
TokenFailed == treqs # <<>> /\ treqs[Len(treqs)].outcome \notin {"ok", "pending"}

----------------------------------------------------------------------------
(* C14: the measure fallback                                                *)

\* the requests of the update sent to an endpoint
RequestsTo(endpoint) == SelectSeq(dreqs, LAMBDA r : r.endpoint = endpoint)

\* gethomemeasure with type "energy" raised IntuisApiError in this update
EnergyFailed ==
    Len(calls) >= 4 /\ IsEnergyCall(calls, 4) /\ calls[4].status = "api_error"

\* C14: after the IntuisApiError of gethomemeasure with type "energy", one more
\* gethomemeasure is made, without type, with the same home id, scale, offset
\* and limit; its result becomes `measures` of a successful update that keeps
\* the status fetched before, its exception fails the update; /api/homesdata
\* and homestatus are requested once at most
C14_MeasureFallback ==
    /\ EnergyFailed =>
           /\ upc \in {"gethomemeasure", "succeeded", "failed"}
           /\ Len(calls) = 4 =>
                  /\ upc = "gethomemeasure"
                  /\ op.name = "post_gethomemeasure"
                  /\ op.rtype = NoneV
                  /\ op.hid = calls[2].hid
                  /\ <<op.scale, op.offset, op.limit>> = <<"day", 0, 30>>
           /\ Len(calls) <= 5
           /\ Len(calls) = 5 =>
                  /\ calls[5].name = "gethomemeasure"
                  /\ calls[5].rtype = NoneV
                  /\ calls[5].hid = calls[4].hid
                  /\ IF calls[5].status = "ok"
                     THEN /\ upc = "succeeded"
                          /\ Len(RequestsTo("post_gethomemeasure")) \in {1, 2}
                          /\ UpdateResult(calls)["measures"] = calls[5].body[1]
                          /\ UpdateResult(calls)["status"] = calls[3].body[1]
                          /\ UpdateResult(calls)["home_id"] = calls[2].hid
                     ELSE upc = "failed"
    /\ ~EnergyFailed => Len(calls) <= 4
    /\ LET ms == RequestsTo("post_gethomemeasure") IN
           /\ Len(ms) <= 2
           /\ \A k \in 1..Len(ms) :
                  /\ ms[k].hid = calls[2].hid
                  /\ <<ms[k].scale, ms[k].offset, ms[k].limit>> = <<"day", 0, 30>>
                  /\ ms[k].rtype = NoneV => (EnergyFailed /\ k = Len(ms))
           /\ Len(SelectSeq(ms, LAMBDA r : r.rtype = NoneV)) <= 1
           /\ Len(SelectSeq(ms, LAMBDA r : r.rtype = "energy")) <= 1
    /\ Len(RequestsTo("post_homestatus")) <= 1
    /\ Len(RequestsTo("get_homesdata")) <= 1

\* the update succeeded with the measures of the second gethomemeasure, after
\* two requests to /api/gethomemeasure
C14_Witness ==
    /\ upc = "succeeded"
    /\ EnergyFailed
    /\ Len(calls) = 5
    /\ Len(RequestsTo("post_gethomemeasure")) = 2
    /\ calls[5].body[1] = [measures |-> <<[value |-> 2]>>]

----------------------------------------------------------------------------
(* climate.room_mode_to_hvac_and_preset                                     *)

RoomModes ==
    {NoneV, "", "off", "OFF", "Manual", "manual", "away", "AWAY", "hg", "Hg",
     "home", "Home", "HOME", "comfort", " off"}

HomeModes == {NoneV, "", "hg", "HG", "away", "Away", "home", "Home", "schedule"}

\* the string as it is
SameCase(v) == v

\* str.lower()
Lower(v) ==
    CASE v \in {"OFF"} -> "off"
      [] v \in {"Manual"} -> "manual"
      [] v \in {"AWAY", "Away"} -> "away"
      [] v \in {"Hg", "HG"} -> "hg"
      [] v \in {"Home", "HOME"} -> "home"
      [] OTHER -> v

\* the (hvac mode, preset) returned for a room mode and a home mode
room_mode_to_hvac_and_preset(room_mode, home_mode) ==
    LET rm == Lower(IF Truthy(room_mode) THEN room_mode ELSE "")
        hm == IF Truthy(home_mode) THEN Lower(home_mode) ELSE NoneV
    IN  IF rm = "off" THEN <<"OFF", NoneV>>
        ELSE IF rm = "manual" THEN <<"HEAT", NoneV>>
        ELSE IF rm = "away" THEN <<"AUTO", "away">>
        ELSE IF rm = "hg" THEN <<"HEAT", "hg">>
        ELSE IF rm = "home"
        THEN IF hm = "hg" THEN <<"HEAT", "hg">>
             ELSE IF hm = "away" THEN <<"AUTO", "away">>
             ELSE <<"AUTO", "home">>
        ELSE <<"AUTO", NoneV>>

\* the function is called
ModeCall ==
    /\ op.name = "room_mode_to_hvac_and_preset"
    /\ cres = NoRes
    /\ cres' = [status |-> "ok",
                value |-> room_mode_to_hvac_and_preset(op.room_mode, op.home_mode)]
    /\ UNCHANGED <<auth, now, cpc, op, attempt, treqs, dreqs>>
    /\ UNCHANGED <<evars, hvars>>

NextMode == ModeCall

InitMode ==
    /\ EFixed
    /\ HInit
    /\ auth = [access_token |-> NoneV, refresh_token |-> NoneV, expires_at |-> <<>>]
    /\ now = 0
    /\ cpc = "idle"
    /\ op \in [name : {"room_mode_to_hvac_and_preset"}, room_mode : RoomModes,
                home_mode : HomeModes]
    /\ cres = NoRes
    /\ attempt = 0
    /\ treqs = <<>>
    /\ dreqs = <<>>

SpecMode == InitMode /\ [][NextMode]_vars

----------------------------------------------------------------------------
(* C15: the mapping of room modes                                           *)

\* the mode a string spells, whatever its case
Spells(v, word) ==
    CASE word = "off" -> v \in {"off", "OFF"}
      [] word = "manual" -> v \in {"manual", "Manual"}
      [] word = "away" -> v \in {"away", "AWAY", "Away"}
      [] word = "hg" -> v \in {"hg", "Hg", "HG"}
      [] word = "home" -> v \in {"home", "Home", "HOME"}
      [] OTHER -> FALSE

\* the table of the mapping
ModeTable(rm, hm) ==
    IF Spells(rm, "off") THEN <<"OFF", NoneV>>
    ELSE IF Spells(rm, "manual") THEN <<"HEAT", NoneV>>
    ELSE IF Spells(rm, "away") THEN <<"AUTO", "away">>
    ELSE IF Spells(rm, "hg") THEN <<"HEAT", "hg">>
    ELSE IF Spells(rm, "home")
    THEN IF Spells(hm, "hg") THEN <<"HEAT", "hg">>
         ELSE IF Spells(hm, "away") THEN <<"AUTO", "away">>
         ELSE <<"AUTO", "home">>
    ELSE <<"AUTO", NoneV>>

\* C15: room_mode_to_hvac_and_preset returns, for every room mode and home mode
\* in any case, the pair of the table; the home mode changes the result only
\* when the room mode is home
C15_ModeMapping ==
    cres # NoRes =>
        /\ cres.value = ModeTable(op.room_mode, op.home_mode)
        /\ ~Spells(op.room_mode, "home") =>
               \A hm \in HomeModes :
                   room_mode_to_hvac_and_preset(op.room_mode, hm) = cres.value

\* room mode Home under home mode HG
C15_Witness ==
    /\ cres # NoRes
    /\ op.room_mode = "Home"
    /\ op.home_mode = "HG"
    /\ cres.value = <<"HEAT", "hg">>

----------------------------------------------------------------------------
(* The breadth-first pass on payloads whose keys come in either order       *)

Rev(seq) == [i \in 1..Len(seq) |-> seq[Len(seq) + 1 - i]]

\* the payload with the keys of every dict in the opposite order
Reversed(p) ==
    [p EXCEPT !.heap = [n \in DOMAIN p.heap |->
                           [p.heap[n] EXCEPT !.kids = Rev(p.heap[n].kids)]]]

OrderPayloads == Payloads \cup {Reversed(p) : p \in Payloads}

NextVisit == BfsIter \/ ReturnBest \/ Fallback

InitVisit == EInit(OrderPayloads) /\ AInit /\ HInit

SpecVisit == InitVisit /\ [][NextVisit]_vars

----------------------------------------------------------------------------
(* C16: the candidate returned and the order of the visits                  *)

WrapperSet == {"home", "body", "data", "result", "homes"}

\* the next iteration takes a dict or list not processed before
Visiting == epc = "bfs" /\ queue # <<>> /\ Head(queue) \notin seen

\* n is the value stored under key k of the dict P
ValueOf(h, P, k, n) ==
    h[P].kind = "dict" /\ \E i \in 1..Len(h[P].kids) : h[P].kids[i] = <<k, n>>

\* n is an item of the list L
ItemOf(h, L, n) ==
    h[L].kind = "list" /\ \E i \in 1..Len(h[L].kids) : h[L].kids[i][2] = n

\* the dict n is under a key of keys: its value, or an item of the list that is
\* its value
DictUnder(h, keys, n) ==
    /\ h[n].kind = "dict"
    /\ \E P \in DOMAIN h : \E k \in keys :
           \/ ValueOf(h, P, k, n)
           \/ \E L \in DOMAIN h : ValueOf(h, P, k, L) /\ ItemOf(h, L, n)

OtherKeys ==
    {"rooms", "owner", "user", "modules_bridged", "capabilities"}

\* the score of the claim: the weights of the hint keys present with a non-empty
\* value, plus 5 when rooms is a list
HintScore(h, obj) ==
    LET present(k) ==
            \/ k \in DOMAIN obj.sc /\ obj.sc[k] \notin {NoneV, ""}
            \/ HasKid(obj, k) /\ ~IsEmpty(h[KidRef(obj, k)])
        S == {i \in 1..Len(HintKeys) : present(HintKeys[i])}
        Sum[T \in SUBSET S] ==
            IF T = {} THEN 0
            ELSE LET i == CHOOSE x \in T : TRUE IN hints[HintKeys[i]] + Sum[T \ {i}]
    IN  Sum[S] + (IF HasKid(obj, "rooms") /\ h[KidRef(obj, "rooms")].kind = "list"
                  THEN 5 ELSE 0)

\* a dict whose id (the first truthy of id, _id, home_id) is not blank
HasId(obj) ==
    /\ obj.kind = "dict"
    /\ LET c == FirstTruthy(ScGet(obj, "id"), ScGet(obj, "_id"), ScGet(obj, "home_id"))
       IN  c # NoneV /\ StrStrip(c) # ""

\* the dict returned has an id and the maximum score of the dicts with an id
MaxScoreReturned ==
    epc' = "returned" =>
        /\ HasId(payload.heap[eresult'])
        /\ \A n \in DOMAIN payload.heap :
               HasId(payload.heap[n]) =>
                   HintScore(payload.heap, payload.heap[n])
                       <= HintScore(payload.heap, payload.heap[eresult'])

\* a visited dict with an id replaces the best one when it scores higher, or the
\* same while it has a rooms key and the best one has none; else the best is kept
TieKeepsFirst ==
    (Visiting /\ HasId(payload.heap[Head(queue)])) =>
        LET cur == Head(queue)
            sc == HintScore(payload.heap, payload.heap[cur])
        IN  IF sc > best_score
               \/ (best # NoneV /\ sc = best_score
                   /\ HasKey(payload.heap[cur], "rooms")
                   /\ ~HasKey(payload.heap[best], "rooms"))
            THEN best' = cur /\ best_score' = sc
            ELSE best' = best /\ best_score' = best_score

\* as stated: when a dict under another key is visited, every dict under a
\* wrapper key has been visited
WrapperDictsFirst ==
    (Visiting /\ DictUnder(payload.heap, OtherKeys, Head(queue))) =>
        \A n \in DOMAIN payload.heap :
            DictUnder(payload.heap, WrapperSet, n) => n \in seen

\* amended: when the value under another key of a dict is visited, the values
\* under the wrapper keys of that dict have been visited
WrapperValuesFirst ==
    Visiting =>
        \A P \in DOMAIN payload.heap : \A k \in OtherKeys :
            ValueOf(payload.heap, P, k, Head(queue)) =>
                \A n \in DOMAIN payload.heap : \A w \in WrapperSet :
                    ValueOf(payload.heap, P, w, n) => n \in seen

----------------------------------------------------------------------------
(* _extract_home_from_homesdata on payloads in which a dict or list is       *)
(* reachable by several paths or by a cycle, the fallback step by step      *)

\* a dict that holds itself under next; a list that holds itself; two dicts that
\* hold each other; a dict stored under two keys; a dict stored twice in a list
Cyclic(id) ==
    {[root |-> "A",
      heap |-> "A" :> Dict(IdSc(id, Absent, Absent) @@ ("city" :> "Paris"),
                           <<<<"next", "A">>>>)],
     [root |-> "L",
      heap |-> "L" :> List(EmptyFcn, <<<<"", "L">>>>)],
     [root |-> "A",
      heap |-> ("A" :> Dict(("name" :> "a"), <<<<"child", "B">>>>))
               @@ ("B" :> Dict(IdSc(id, Absent, Absent) @@ ("city" :> "Paris"),
                               <<<<"parent", "A">>>>))],
     [root |-> "W",
      heap |-> ("W" :> Dict(("status" :> "ok"), <<<<"a", "S">>, <<"home", "S">>>>))
               @@ ("S" :> Dict(IdSc(id, Absent, Absent) @@ ("city" :> "Paris"), <<>>))],
     [root |-> "L",
      heap |-> ("L" :> List(EmptyFcn, <<<<"", "S">>, <<"", "S">>, <<"", "L2">>>>))
               @@ ("L2" :> List(EmptyFcn, <<<<"", "S">>>>))
               @@ ("S" :> Dict(IdSc(id, Absent, Absent) @@ ("name" :> "s"), <<>>))]}

TermPayloads ==
    UNION {Cyclic(id) : id \in {Absent, " ", "h1"}}
    \cup {MkPayload(place, hv, "none", NoX) :
              place \in Places, hv \in BlankHomeVariants}
    \cup {CoordPayloads[i] : i \in 1..Len(CoordPayloads)}

\* a pending call _search_home(ref, depth)
Frame(ref, depth) == <<ref, depth>>

\* the calls _search_home(obj, depth) makes on the dicts and lists in obj, in
\* order: the keys home, data, result, body, the items of homes, every value
SearchKids(h, obj, depth) ==
    LET pri == SelectSeq(<<"home", "data", "result", "body">>, LAMBDA k : HasKid(obj, k))
        priRefs == [i \in 1..Len(pri) |-> KidRef(obj, pri[i])]
        homes == IF HasKid(obj, "homes") /\ h[KidRef(obj, "homes")].kind = "list"
                 THEN KidRefs(h[KidRef(obj, "homes")]) ELSE <<>>
        refs == IF obj.kind = "dict" THEN priRefs \o homes \o KidRefs(obj)
                ELSE KidRefs(obj)
    IN  [i \in 1..Len(refs) |-> Frame(refs[i], depth + 1)]

\* the depth guard lets every depth through
DepthExceededNever(depth) == FALSE

\* `if depth > 32: return None`
DepthExceeded(depth) == depth > MaxDepth

\* the breadth-first pass found no candidate: home = _search_home(payload)
SearchStart ==
    /\ epc = "bfs"
    /\ queue = <<>>
    /\ best = NoneV
    /\ epc' = "search"
    /\ queue' = <<Frame(payload.root, 0)>>
    /\ UNCHANGED <<payload, seen, best, best_score, eresult>>
    /\ UNCHANGED <<avars, hvars>>

\* one call of _search_home: it returns None past the depth guard, returns the
\* dict that looks like a home (and so do all its callers), or calls itself on
\* the values of the dict or list
SearchStep ==
    /\ epc = "search"
    /\ queue # <<>>
    /\ LET ref == Head(queue)[1]
           depth == Head(queue)[2]
           obj == payload.heap[ref]
       IN  IF DepthExceeded(depth)
           THEN queue' = Tail(queue) /\ UNCHANGED <<epc, eresult>>
           ELSE IF obj.kind = "dict" /\ _looks_like_home(obj)
           THEN queue' = <<>> /\ epc' = "returned" /\ eresult' = ref
           ELSE /\ queue' = SearchKids(payload.heap, obj, depth) \o Tail(queue)
                /\ UNCHANGED <<epc, eresult>>
    /\ UNCHANGED <<payload, seen, best, best_score>>
    /\ UNCHANGED <<avars, hvars>>

\* _search_home(payload) returned None: IntuisApiError
SearchFails ==
    /\ epc = "search"
    /\ queue = <<>>
    /\ epc' = "raised"
    /\ UNCHANGED <<payload, queue, seen, best, best_score, eresult>>
    /\ UNCHANGED <<avars, hvars>>

NextTerm ==
    \/ BfsIter
    \/ ReturnBest
    \/ SearchStart
    \/ SearchStep
    \/ SearchFails

InitTerm == EInit(TermPayloads) /\ AInit /\ HInit

\* the function is a single coroutine step of the event loop: it runs on
SpecTerm == InitTerm /\ [][NextTerm]_vars /\ WF_vars(NextTerm)

----------------------------------------------------------------------------
(* C17: termination                                                         *)

\* a dict or list already processed is skipped, one processed now is marked,
\* and no mark is ever removed
ProcessedOnce ==
    /\ seen \subseteq seen'
    /\ (epc = "bfs" /\ queue # <<>>) =>
           IF Head(queue) \in seen
           THEN seen' = seen /\ best' = best /\ queue' = Tail(queue)
           ELSE seen' = seen \cup {Head(queue)} /\ Cardinality(seen') = Cardinality(seen) + 1

\* the fallback looks into no dict or list deeper than 32 levels: only a call
\* no deeper than that calls on, none is deeper than 33
DepthBounded ==
    epc = "search" =>
        /\ \A i \in 1..Len(queue) : queue[i][2] <= 33
        /\ (queue # <<>> /\ queue' # Tail(queue)) => Head(queue)[2] <= 32

\* C17: _extract_home_from_homesdata terminates on every payload, shared or
\* cyclic ones included: the breadth-first pass processes each dict or list at
\* most once and the fallback never goes deeper than 32 levels
C17_Terminates ==
    /\ [][ProcessedOnce /\ DepthBounded]_vars
    /\ <>(epc \in {"returned", "raised"})

\* the fallback ran down a cycle to the depth guard and the function raised
C17_Witness ==
    /\ epc = "raised"
    /\ payload.root = "A"
    /\ HasKid(payload.heap["A"], "next")
    /\ seen = {"A"}

----------------------------------------------------------------------------
(* _store_tokens applied to a sequence of token responses                   *)

MaxStores == 2

\* the objects /oauth2/token answers with: access_token and refresh_token
\* absent, null or set, expires_in a number or not
StoreResponses ==
    [kind : {"dict"},
     access_token : {Absent, "tA", "tB"},
     refresh_token : {Absent, NoneV, "rA", "rB"},
     expires_in : {<<>>, <<30>>}]

\* login() or _refresh() got a token object: self._store_tokens(data)
StoreTokens ==
    /\ Len(calls) < MaxStores
    /\ \E resp \in StoreResponses :
          /\ auth' = _store_tokens(auth, resp, now)
          /\ calls' = Append(calls, [resp |-> resp, at |-> now, before |-> auth])
    /\ UNCHANGED <<now, cpc, op, cres, attempt, treqs, dreqs>>
    /\ UNCHANGED <<home_cache, upc, reason, data, spc, forwarded, plat, sensors,
                   climates, polls>>
    /\ UNCHANGED evars

NextStore == StoreTokens \/ Tick

InitStore ==
    /\ EFixed
    /\ HInit
    /\ auth \in [access_token : {NoneV, "t0"}, refresh_token : {NoneV, "r0"},
                  expires_at : {<<>>}]
    /\ now = 0
    /\ cpc = "idle"
    /\ op = NoOp
    /\ cres = NoRes
    /\ attempt = 0
    /\ treqs = <<>>
    /\ dreqs = <<>>

SpecStore == InitStore /\ [][NextStore]_vars

----------------------------------------------------------------------------
(* C18: what _store_tokens changes                                          *)

\* the responses stored so far that held a refresh_token
WithRefresh == SelectSeq(calls, LAMBDA c : c.resp.refresh_token # Absent)

\* C18: after a token response is stored the access token is the one of the
\* response (None when it has none), the refresh token is the one of the response
\* when it holds one and the one held before otherwise, expires_at is the time of
\* the call plus expires_in, or plus 3600 when expires_in is no number; so the
\* refresh token held is the one of the last response that held one
C18_StoreTokens ==
    calls # <<>> =>
        LET last == calls[Len(calls)] IN
        /\ auth.access_token =
               (IF last.resp.access_token = Absent THEN NoneV ELSE last.resp.access_token)
        /\ auth.refresh_token =
               (IF last.resp.refresh_token = Absent THEN last.before.refresh_token
                ELSE last.resp.refresh_token)
        /\ auth.expires_at =
               (IF last.resp.expires_in # <<>> THEN <<last.at + last.resp.expires_in[1]>>
                ELSE <<last.at + 3600>>)
        /\ auth.refresh_token =
               (IF WithRefresh = <<>> THEN calls[1].before.refresh_token
                ELSE WithRefresh[Len(WithRefresh)].resp.refresh_token)

\* two responses were stored, the second without a refresh_token: the token of
\* the first is still held, with the access token and the expiry of the second
C18_Witness ==
    /\ Len(calls) = 2
    /\ calls[1].resp.refresh_token = "rA"
    /\ calls[2].resp.refresh_token = Absent
    /\ calls[2].resp.access_token = "tB"
    /\ calls[2].at > calls[1].at
    /\ auth.refresh_token = "rA"
    /\ auth.access_token = "tB"

============================================================================
